---- MODULE Spec2Model ----
(***************************************************************************)
(* Texas Hold'em (src/texas_holdem.py): the card engine, the bot policy    *)
(* and the betting-round state machine of class App, as a state machine.   *)
(* Players are the list indices 0..3 of App.players; player 0 is the       *)
(* human, players 1..3 are the bots.  The Tk timer callbacks               *)
(* (root.after), the bot thread and the button handlers are the actions;   *)
(* pc names the one callback / handler that is currently scheduled or      *)
(* bound.  Rendering, sound, history text and statistics are left out.     *)
(***************************************************************************)
EXTENDS Integers, Sequences, FiniteSets, TLC

(***************************************************************************)
(* Bounds of the model.                                                    *)
(***************************************************************************)
\* largest starting stack entered in the setup dialog (cfg['stack']) of the
\* sessions that are followed over MaxHands hands
MaxStack == 2
\* largest starting stack of the sessions that are followed over their first
\* hand only
MaxFirstStack == 4
\* largest small blind entered in the setup dialog (cfg['sb']) of the sessions
\* that are followed over MaxHands hands
MaxSB == 2
\* largest small blind of the sessions that are followed over their first
\* hand only
MaxFirstSB == 1
\* hands dealt before the model stops dealing (caps App.hnum)
MaxHands == 2
\* the integers typed into the raise entry range over 0..MaxTyped
MaxTyped == 4
\* the inputs of bot_decision when it is checked on its own: stack in
\* 1..MaxBotStack, pot in 0..MaxBotPot, call_amt in 0..MaxBotCall, min_raise in
\* 1..MaxBotRaise
MaxBotStack == 10
MaxBotPot == 8
MaxBotCall == 2
MaxBotRaise == 3

(***************************************************************************)
(* Small helpers.                                                          *)
(***************************************************************************)
Min(a, b) == IF a <= b THEN a ELSE b
Max(a, b) == IF a >= b THEN a ELSE b
Range(s) == {s[i] : i \in 1..Len(s)}

Players == 0..3

(***************************************************************************)
(* CARD ENGINE                                                             *)
(***************************************************************************)
SUITS == <<"S", "H", "D", "C">>
RANKS == <<"2", "3", "4", "5", "6", "7", "8", "9", "10", "J", "Q", "K", "A">>
\* {r:i for i,r in enumerate(RANKS,2)}
RANK_VAL == [r \in Range(RANKS) |-> (CHOOSE i \in 1..13 : RANKS[i] = r) + 1]

\* [(r,s) for s in SUITS for r in RANKS]; a card is <<rank, suit>>
make_deck ==
    [k \in 1..52 |-> <<RANKS[((k - 1) % 13) + 1], SUITS[((k - 1) \div 13) + 1]>>]

\* sorted(..., reverse=True) of a sequence of integers (insertion sort)
RECURSIVE InsertDesc(_, _)
InsertDesc(x, s) ==
    IF s = <<>> THEN <<x>>
    ELSE IF x >= Head(s) THEN <<x>> \o s
    ELSE <<Head(s)>> \o InsertDesc(x, Tail(s))

RECURSIVE SortDesc(_)
SortDesc(s) == IF s = <<>> THEN <<>> ELSE InsertDesc(Head(s), SortDesc(Tail(s)))

\* Python's list comparison a > b: the first differing element decides, and
\* of a list and its proper prefix the longer one is the greater
RECURSIVE ListGT(_, _)
ListGT(a, b) ==
    IF a = <<>> THEN FALSE
    ELSE IF b = <<>> THEN TRUE
    ELSE IF Head(a) # Head(b) THEN Head(a) > Head(b)
    ELSE ListGT(Tail(a), Tail(b))

\* Python's tuple comparison of two (category, tie-break list) scores
RankGT(a, b) == a[1] > b[1] \/ (a[1] = b[1] /\ ListGT(a[2], b[2]))

\* sorted(counts.keys(), key=lambda v:(counts[v],v), reverse=True)
RECURSIVE GroupOrder(_, _)
GroupOrder(keys, counts) ==
    IF keys = {} THEN <<>>
    ELSE LET top == CHOOSE v \in keys : \A w \in keys :
                        \/ counts[v] > counts[w]
                        \/ (counts[v] = counts[w] /\ v >= w)
         IN  <<top>> \o GroupOrder(keys \ {top}, counts)

\* a faulty test that never recognises the wheel
NoWheel(vals) == FALSE

\* vals==[14,5,4,3,2]
Wheel(vals) == vals = <<14, 5, 4, 3, 2>>

score_five(cards) ==
    LET vals0  == SortDesc([i \in 1..5 |-> RANK_VAL[cards[i][1]]])
        flush  == Cardinality({cards[i][2] : i \in 1..5}) = 1
        wheel  == Wheel(vals0)
        st     == (vals0 = [i \in 1..5 |-> vals0[1] - (i - 1)]) \/ wheel
        vals   == IF st /\ wheel THEN <<5, 4, 3, 2, 1>> ELSE vals0
        keys   == Range(vals)
        counts == [v \in keys |-> Cardinality({i \in 1..5 : vals[i] = v})]
        grp    == GroupOrder(keys, counts)
        \* sorted(counts.values(), reverse=True)
        freq   == SortDesc([i \in 1..Len(grp) |-> counts[grp[i]]])
    IN  IF st /\ flush THEN <<8, vals>>
        ELSE IF freq = <<4, 1>> THEN <<7, grp>>
        ELSE IF freq = <<3, 2>> THEN <<6, grp>>
        ELSE IF flush THEN <<5, vals>>
        ELSE IF st THEN <<4, vals>>
        ELSE IF freq[1] = 3 THEN <<3, grp>>
        ELSE IF Len(freq) >= 2 /\ freq[1] = 2 /\ freq[2] = 2 THEN <<2, grp>>
        ELSE IF freq[1] = 2 THEN <<1, grp>>
        ELSE <<0, vals>>

\* itertools.combinations(hand, r): the index sets, and the cards of one of
\* them in the order they have in hand
Combinations(n, r) == {S \in SUBSET (1..n) : Cardinality(S) = r}
Pick(hand, S) ==
    [i \in 1..Cardinality(S) |->
        hand[CHOOSE x \in S : Cardinality({y \in S : y < x}) = i - 1]]

\* the score that "if best is None or s>best: best=s" ends with
Best(scores) == CHOOSE s \in scores : \A o \in scores : ~RankGT(o, s)

\* the best score_five over every 5-card combination of hand
hand_rank(hand) ==
    Best({score_five(Pick(hand, S)) : S \in Combinations(Len(hand), 5)})

(***************************************************************************)
(* BOT AI                                                                  *)
(* Strengths are kept as exact rationals in units of 1/(100*TRIALS), so    *)
(* wins/TRIALS is wins*100 and a percentage p is p*TRIALS.  The random     *)
(* draws of bot_decision are its last five parameters.                     *)
(***************************************************************************)
\* estimate_strength(hole,comm,trials=120)
TRIALS == 120
One == 100 * TRIALS
Pct(p) == p * TRIALS

Difficulties == {"easy", "medium", "hard"}
\* the four numbers of each difficulty, in hundredths
DIFFICULTY_ADJ ==
    [easy   |-> [fold_bias |-> 10, bluff |-> 4,  raise_cap |-> 20, skill |-> -8],
     medium |-> [fold_bias |-> 5,  bluff |-> 6,  raise_cap |-> 30, skill |-> 0],
     hard   |-> [fold_bias |-> 0,  bluff |-> 10, raise_cap |-> 45, skill |-> 8]]

\* persona_adj.get(player.get('persona',''),0), in hundredths
persona_adj(persona) ==
    CASE persona = "aggressive" -> 10
      [] persona = "tight"      -> -12
      [] persona = "loose"      -> 4
      [] OTHER                  -> 0

\* pot_bet=int(pot*random.uniform(0.5,0.75)): the values the draw can give
PotBets(pot) == (pot \div 2)..((3 * pot) \div 4)

\* max(min_raise, min(pot_bet, int(stack*raise_cap), stack))
safe_raise(pot_bet, stack, min_raise, d) ==
    Max(min_raise, Min(Min(pot_bet, (stack * d.raise_cap) \div 100), stack))

\* a faulty CanRaise: the test stack>=min_raise is missing
CanRaiseAlways(stack, min_raise) == TRUE

\* the test that guards both raise branches: stack>=min_raise
CanRaise(stack, min_raise) == stack >= min_raise

\* eff < pot_odds + fold_bias; the float comparison may round either way when
\* both sides are equal as rationals (tie is that rounding)
BelowPotOdds(eff, pot, call_amt, d, tie) ==
    LET lhs == eff * (pot + call_amt)
        rhs == One * call_amt + Pct(d.fold_bias) * (pot + call_amt)
    IN  IF pot + call_amt > 0
        THEN lhs < rhs \/ (lhs = rhs /\ tie)
        ELSE eff < One + Pct(d.fold_bias)

\* a faulty FreeCheck: a call of one chip is taken for no call
FreeCheckLoose(call_amt) == call_amt <= 1

\* if call_amt==0
FreeCheck(call_amt) == call_amt = 0

\* wins: the wins counted by estimate_strength; bluff: random.random()<d['bluff'];
\* rnd: random.random()<0.6 (or 0.55); pot_bet: see PotBets; tie: see BelowPotOdds
bot_decision(stack, persona, pot, call_amt, min_raise, difficulty, wins, bluff, rnd, pot_bet, tie) ==
    LET d   == DIFFICULTY_ADJ[difficulty]
        s   == Max(0, Min(One, wins * 100 + Pct(persona_adj(persona)) + Pct(d.skill)))
        eff == IF bluff THEN Min(One, s + Pct(20)) ELSE s
    IN  IF FreeCheck(call_amt)
        THEN IF eff > Pct(72) /\ CanRaise(stack, min_raise) /\ rnd
             THEN <<"raise", safe_raise(pot_bet, stack, min_raise, d)>>
             ELSE <<"check", 0>>
        ELSE IF BelowPotOdds(eff, pot, call_amt, d, tie) /\ ~bluff
             THEN <<"fold", 0>>
        ELSE IF eff < Pct(55)
             THEN IF call_amt <= stack \div 10
                  THEN <<"call", Min(call_amt, stack)>>
                  ELSE <<"fold", 0>>
        ELSE IF eff < Pct(75)
             THEN <<"call", Min(call_amt, stack)>>
        ELSE IF CanRaise(stack, min_raise) /\ rnd
             THEN <<"raise", safe_raise(pot_bet, stack, min_raise, d)>>
             ELSE <<"call", Min(call_amt, stack)>>

(***************************************************************************)
(* MAIN APP: the state of class App                                        *)
(***************************************************************************)
VARIABLES
    cfg,          \* setup_dialog result: [stack, sb, bb, diff]
    stack,        \* players[i]['stack']
    bet,          \* players[i]['bet']
    folded,       \* players[i]['folded']
    hand,         \* players[i]['hand']
    deck,         \* self.deck
    comm,         \* self.comm
    pot,          \* self.pot
    hbet,         \* self.hbet
    dealer,       \* self.dealer
    hnum,         \* self.hnum
    aq,           \* self.aq
    last_action,  \* self.last_action: the kind of the last action of a seat
                  \* this street, "" when the seat has no entry
    pc,           \* the callback that root.after has scheduled, the running bot
                  \* thread, or the handlers that are bound to the buttons
    turn,         \* the arguments captured by the pending turn's closures:
                  \* idx, call, mr, and the bot's computed act, amt
    ev            \* the handler that ran last and what it was given / reported

vars == <<cfg, stack, bet, folded, hand, deck, comm, pot, hbet, dealer, hnum,
          aq, last_action, pc, turn, ev>>

HUMAN == 0
\* players[i]['human']
human(i) == i = HUMAN
\* players[i]['persona']
persona(i) == <<"", "aggressive", "tight", "loose">>[i + 1]

NoTurn == [idx |-> -1, call |-> 0, mr |-> 0, act |-> "", amt |-> 0]
NoInput == [num |-> FALSE, val |-> 0]
\* what apply() found when it was entered: hbet, the bets and the stacks
NoPre == [hbet |-> 0, bet |-> <<>>, stack |-> <<>>]
Event(op, idx, act, amt) ==
    [op |-> op, idx |-> idx, act |-> act, amt |-> amt, who |-> {},
     inp |-> NoInput, pre |-> NoPre]

\* random.shuffle(deck): the permutations the model draws from are
\* i -> a*i+b mod 52 of make_deck(), one per key <<a, b>>
\* <<27, 0>> deals seat 3 the best hand and seats 0..2 hands that tie;
\* <<7, 1>> deals four hands of different rank
ShuffleKeys == {<<27, 0>>, <<7, 1>>}
Shuffled(k) == [i \in 1..52 |-> make_deck[((k[1] * (i - 1) + k[2]) % 52) + 1]]

\* a faulty pop that leaves the card on the deck: the top card n times
PopsTop(d, n) == [j \in 1..n |-> d[Len(d)]]

\* deck.pop() n times: the cards popped, in pop order
Pops(d, n) == [j \in 1..n |-> d[Len(d) - j + 1]]
AfterPops(d, n) == SubSeq(d, 1, Len(d) - n)

\* the text the human can have in the raise entry when RAISE is pressed:
\* not a number, or an integer
TypedInputs ==
    {NoInput} \cup {[num |-> TRUE, val |-> v] : v \in 0..MaxTyped}

\* the four seats taken from the seat after start
SeatsAfter(start) == [k \in 1..4 |-> (start + k) % 4]

\* [(start+i)%4 for i in range(4)]
SeatsFrom(start) == [k \in 1..4 |-> (start + k - 1) % 4]

Active(fd) == {i \in Players : ~fd[i]}

(***************************************************************************)
(* __init__                                                                *)
(***************************************************************************)
\* the results of setup_dialog with a starting stack of at most maxStack, a
\* small blind of at most maxSB and a difficulty of diffs
Setups(maxStack, maxSB, diffs) ==
    {[stack |-> s, sb |-> b, bb |-> b * 2, diff |-> d] :
        s \in 1..maxStack, b \in 1..maxSB, d \in diffs}

\* App.__init__(root, cfg) for a cfg of setups
Constructed(setups) ==
    /\ cfg \in setups
    /\ stack = [i \in Players |-> cfg.stack]
    /\ bet = [i \in Players |-> 0]
    /\ folded = [i \in Players |-> FALSE]
    /\ hand = [i \in Players |-> <<>>]
    /\ deck = <<>>
    /\ comm = <<>>
    /\ pot = 0
    /\ dealer \in Players
    /\ hnum = 0
    /\ hbet = 0
    /\ aq = <<>>
    /\ last_action = [i \in Players |-> ""]
    /\ pc = "start_hand"
    /\ turn = NoTurn
    /\ ev = Event("init", -1, "", 0)

Init == Constructed(Setups(MaxStack, MaxSB, Difficulties))

(***************************************************************************)
(* HAND FLOW                                                               *)
(***************************************************************************)
\* what Python's None is in the model (next_alive falling off its loop)
None == -1

\* a faulty test that never finds the human out of chips
HumanNeverOut(st) == FALSE

\* me=next(p for p in self.players if p['human']); me['stack']==0, the first
\* test of start_hand and of deal_btn
HumanOut(st) == st[HUMAN] = 0

\* game_over(): only the PLAY AGAIN button is left
game_over ==
    /\ pc' = "game_over"
    /\ turn' = NoTurn
    /\ ev' = Event("game_over", -1, "", 0)
    /\ UNCHANGED <<cfg, stack, bet, folded, hand, deck, comm, pot, hbet, dealer,
                   hnum, aq, last_action>>

\* the loop "for p in self.players" of start_hand over the shuffled deck d0:
\* every seat of alive pops two cards, in list order
Dealt(d0, alive) ==
    LET nth(i) == Cardinality({j \in alive : j < i})
    IN  [hand |-> [i \in Players |->
                     IF i \in alive
                     THEN <<d0[52 - 2 * nth(i)], d0[51 - 2 * nth(i)]>>
                     ELSE <<>>],
         deck |-> AfterPops(d0, 2 * Cardinality(alive))]

\* start_hand(): deals two cards to every player with chips and schedules
\* preflop (through the deal animation)
start_hand ==
    LET alive == {i \in Players : stack[i] > 0}
    IN  IF HumanOut(stack) \/ (Cardinality(alive) = 1 /\ HUMAN \in alive)
        THEN game_over
        ELSE /\ hnum < MaxHands
             /\ \E k \in ShuffleKeys :
                  \E dealt \in {Dealt(Shuffled(k), alive)} :
                      /\ hand' = dealt.hand
                      /\ deck' = dealt.deck
             /\ hnum' = hnum + 1
             /\ comm' = <<>>
             /\ pot' = 0
             /\ last_action' = [i \in Players |-> ""]
             /\ folded' = [i \in Players |-> i \notin alive]
             /\ bet' = [i \in Players |-> 0]
             /\ pc' = "preflop"
             /\ turn' = NoTurn
             /\ ev' = Event("start_hand", -1, "", 0)
             /\ UNCHANGED <<cfg, stack, hbet, dealer, aq>>

\* root.after(300,self.start_hand) of __init__ and reset fires
StartHandTimer == pc = "start_hand" /\ start_hand

\* the human clicks DEAL NEXT HAND
DealClick == pc = "deal_wait" /\ start_hand

\* a seat search that does not test the stacks
next_seat(st, after) == (after + 1) % 4

\* next_alive(after) of preflop, over the stacks st
next_alive(st, after) ==
    LET offs == {off \in 1..4 : st[(after + off) % 4] > 0}
    IN  IF offs = {} THEN None
        ELSE (after + (CHOOSE o \in offs : \A o2 \in offs : o <= o2)) % 4

\* pd=min(a,p['stack']) of a blind of nominal size a
BlindPaid(a, stk) == Min(a, stk)

\* winners=[p for r,p in ranked if r==best], rank being each un-folded
\* player's hand_rank: the players no other player's rank is greater than
Tied(rank) ==
    {i \in DOMAIN rank : \A j \in DOMAIN rank : ~RankGT(rank[j], rank[i])}

\* a faulty Winners: the players who folded are ranked with the others
WinnersWithFolded(fd, hd, cm) ==
    Tied([i \in {j \in Players : Len(hd[j]) = 2} |-> hand_rank(hd[i] \o cm)])

\* the players tied for the best hand_rank among the un-folded ones
Winners(fd, hd, cm) == Tied([i \in Active(fd) |-> hand_rank(hd[i] \o cm)])

\* a faulty Split: every winner is paid the whole pot
SplitWhole(p, k) == p

\* split=self.pot//len(winners)
Split(p, k) == p \div k

\* a faulty rotation to the next seat, with chips or without
NextDealerSeat(st, d) == (d + 1) % 4

\* the dealer button after the hand: the next seat with chips
NextDealer(st, d) ==
    LET offs == {off \in 1..4 : st[(d + off) % 4] > 0}
    IN  IF offs = {} THEN d
        ELSE (d + (CHOOSE o \in offs : \A o2 \in offs : o <= o2)) % 4

\* a faulty Award: the winner is paid half the pot
AwardHalf(st, w, p) == [st EXCEPT ![w] = @ + p \div 2]

\* w['stack']+=self.pot of an uncontested hand
Award(st, w, p) == [st EXCEPT ![w] = @ + p]

\* end_hand(): everything but hbet, which its callers set or keep
end_hand ==
    LET active == Active(folded)
    IN  /\ IF Cardinality(active) = 1
           THEN LET w == CHOOSE i \in active : TRUE
                    st == Award(stack, w, pot)
                IN  /\ stack' = st
                    /\ dealer' = NextDealer(st, dealer)
                    /\ pc' = "deal_btn"
                    /\ ev' = [Event("end_hand", w, "uncontested", pot)
                                EXCEPT !.who = {w}]
           ELSE IF active = {} \/ Len(comm) < 3
           \* ranked[0] of an empty list, or hand_rank of fewer than five
           \* cards (None): the callback raises
           THEN /\ pc' = "error"
                /\ ev' = Event("end_hand", -1, "raised", 0)
                /\ UNCHANGED <<stack, dealer>>
           ELSE \E winners \in {Winners(folded, hand, comm)} :
                LET split == Split(pot, Cardinality(winners))
                    st    == [i \in Players |->
                                IF i \in winners THEN stack[i] + split
                                ELSE stack[i]]
                IN  /\ stack' = st
                    /\ dealer' = NextDealer(st, dealer)
                    /\ pc' = "deal_btn"
                    /\ ev' = [Event("end_hand", -1, "showdown", split)
                                EXCEPT !.who = winners]
        /\ turn' = NoTurn
        /\ UNCHANGED <<cfg, bet, folded, hand, deck, comm, pot, hnum, aq,
                       last_action>>

\* preflop(): posts the blinds and builds the first action queue
preflop ==
    /\ pc = "preflop"
    /\ LET alive_idxs == {i \in Players : stack[i] > 0}
       IN  IF Cardinality(alive_idxs) < 2
           THEN hbet' = 0 /\ end_hand
           ELSE LET sbi   == next_alive(stack, dealer)
                    bbi   == next_alive(stack, sbi)
                    pdS   == BlindPaid(cfg.sb, stack[sbi])
                    st1   == [stack EXCEPT ![sbi] = @ - pdS]
                    bt1   == [bet EXCEPT ![sbi] = @ + pdS]
                    pdB   == BlindPaid(cfg.bb, st1[bbi])
                    st2   == [st1 EXCEPT ![bbi] = @ - pdB]
                    bt2   == [bt1 EXCEPT ![bbi] = @ + pdB]
                    start == next_alive(st2, bbi)
                IN  /\ stack' = st2
                    /\ bet' = bt2
                    /\ pot' = pot + pdS + pdB
                    /\ hbet' = bt2[bbi]
                    /\ last_action' = [last_action EXCEPT ![sbi] = "blind",
                                                          ![bbi] = "blind"]
                    /\ turn' = NoTurn
                    /\ IF start = None
                       \* self.players[None]: the callback raises before
                       \* self.aq is set and before next_action is scheduled
                       THEN /\ pc' = "error"
                            /\ ev' = Event("preflop", -1, "raised", 0)
                            /\ UNCHANGED aq
                       ELSE /\ aq' = SelectSeq(SeatsFrom(start),
                                       LAMBDA i : st2[i] > 0 /\ ~folded[i])
                            /\ pc' = "next_action"
                            /\ ev' = Event("preflop", -1, "", 0)
                    /\ UNCHANGED <<cfg, folded, hand, deck, comm, dealer, hnum>>

\* street(name,cards), run by the timer that advance() set; n cards are
\* popped when the timer fires
street(n) ==
    /\ comm' = comm \o Pops(deck, n)
    /\ deck' = AfterPops(deck, n)
    /\ bet' = [i \in Players |-> 0]
    /\ hbet' = 0
    /\ last_action' = [i \in Players |-> ""]
    /\ aq' = SelectSeq(SeatsFrom((dealer + 1) % 4),
                       LAMBDA i : ~folded[i] /\ stack[i] > 0)
    /\ pc' = "next_action"
    /\ turn' = NoTurn
    /\ ev' = Event("street", -1, "", n)
    /\ UNCHANGED <<cfg, stack, folded, hand, pot, dealer, hnum>>

\* a faulty flop of two cards
FlopTwo == pc = "street_flop" /\ street(2)

Flop == pc = "street_flop" /\ street(3)
\* a faulty turn of two cards
TurnTwo == pc = "street_turn" /\ street(2)

Turn == pc = "street_turn" /\ street(1)
River == pc = "street_river" /\ street(1)

\* a faulty StreetAfter: the river is never dealt
StreetAfterNoRiver(n) ==
    CASE n = 0 -> "street_flop"
      [] n = 3 -> "street_turn"
      [] OTHER -> "end_hand"

\* the chain "if n==0 ... elif n==3 ... elif n==4 ... else" of advance: the
\* timer it sets for n community cards, "end_hand" for its else
StreetAfter(n) ==
    CASE n = 0 -> "street_flop"
      [] n = 3 -> "street_turn"
      [] n = 4 -> "street_river"
      [] OTHER -> "end_hand"

\* advance(): the betting round is over
advance ==
    IF Cardinality(Active(folded)) <= 1 \/ StreetAfter(Len(comm)) = "end_hand"
    THEN end_hand /\ UNCHANGED hbet
    ELSE /\ pc' = StreetAfter(Len(comm))
         /\ turn' = NoTurn
         /\ ev' = Event("advance", -1, "", 0)
         /\ UNCHANGED <<cfg, stack, bet, folded, hand, deck, comm, pot, hbet,
                        dealer, hnum, aq, last_action>>

\* call=max(0,self.hbet-p['bet'])
CallAmount(hb, b) == Max(0, hb - b)
\* mr=max(self.BB,self.hbet*2)-p['bet']
MinRaise(bb, hb, b) == Max(bb, hb * 2) - b

\* next_action(): ends the hand, ends the round, skips a seat or starts a turn
next_action ==
    /\ pc = "next_action"
    /\ IF Cardinality(Active(folded)) <= 1
       THEN end_hand /\ UNCHANGED hbet
       ELSE IF aq = <<>>
       THEN advance
       ELSE LET idx == Head(aq)
            IN  /\ aq' = Tail(aq)
                /\ IF folded[idx] \/ stack[idx] = 0
                   THEN /\ pc' = "next_action"
                        /\ turn' = NoTurn
                        /\ ev' = Event("next_action", idx, "skip", 0)
                   ELSE /\ pc' = IF human(idx) THEN "human_turn" ELSE "think"
                        /\ turn' = [idx  |-> idx,
                                    call |-> CallAmount(hbet, bet[idx]),
                                    mr   |-> MinRaise(cfg.bb, hbet, bet[idx]),
                                    act  |-> "",
                                    amt  |-> 0]
                        /\ ev' = Event("next_action", idx, "turn", 0)
                /\ UNCHANGED <<cfg, stack, bet, folded, hand, deck, comm, pot,
                               hbet, dealer, hnum, last_action>>

(***************************************************************************)
(* apply(idx,p,act,amt,call,mr)                                            *)
(***************************************************************************)
\* a faulty Pay: the chips leave the stack twice
PayTwice(st, idx, pd) == [st EXCEPT ![idx] = @ - 2 * pd]

\* a faulty call that pays the whole amount owed, whatever the stack holds
CallPaidFull(call, stk) == call

\* p['stack']-=pd
Pay(st, idx, pd) == [st EXCEPT ![idx] = @ - pd]
\* pd=min(call,p['stack']) of a call
CallPaid(call, stk) == Min(call, stk)
\* pd=min(call+amt,p['stack']) of a raise
RaisePaid(call, amt, stk) == Min(call + amt, stk)

\* a faulty ReopenSeat: only the seats listed after the raiser are re-queued
ReopenSeatAfter(q, i, idx, fd, st, bt, hb) ==
    IF ~fd[i] /\ i > idx /\ st[i] > 0 /\ bt[i] < hb /\ i \notin Range(q)
    THEN Append(q, i)
    ELSE q

\* one turn of the loop "for i,q in enumerate(self.players)" of a raise
ReopenSeat(q, i, idx, fd, st, bt, hb) ==
    IF ~fd[i] /\ i # idx /\ st[i] > 0 /\ bt[i] < hb /\ i \notin Range(q)
    THEN Append(q, i)
    ELSE q

\* a faulty Reopen: the seat before the raiser is left out
ReopenSkipPrev(q, idx, fd, st, bt, hb) ==
    LET seat(qq, i) == IF i = (idx + 3) % 4 THEN qq
                       ELSE ReopenSeat(qq, i, idx, fd, st, bt, hb)
    IN  seat(seat(seat(seat(q, 0), 1), 2), 3)

\* the action queue after a raise to hb by seat idx
Reopen(q, idx, fd, st, bt, hb) ==
    ReopenSeat(ReopenSeat(ReopenSeat(ReopenSeat(q, 0, idx, fd, st, bt, hb),
                                     1, idx, fd, st, bt, hb),
                          2, idx, fd, st, bt, hb),
               3, idx, fd, st, bt, hb)

\* a faulty apply that leaves the buttons (or the timer) of the turn in place
AppliedTurnKept(p, t) == [pc |-> p, turn |-> t]

\* what apply() does to the turn whose handler p called it: clear_btns()
\* removes the buttons and key bindings, active_idx becomes None and
\* next_action is scheduled
Applied(p, t) == [pc |-> "next_action", turn |-> NoTurn]

\* e is what the handler that calls apply reports in ev
apply(idx, act, amt, call, mr, e) ==
    /\ IF act = "fold"
       THEN /\ folded' = [folded EXCEPT ![idx] = TRUE]
            /\ UNCHANGED <<stack, bet, pot, hbet, aq>>
       ELSE IF act = "check"
       THEN UNCHANGED <<folded, stack, bet, pot, hbet, aq>>
       ELSE IF act = "call"
       THEN LET pd == CallPaid(call, stack[idx])
            IN  /\ stack' = Pay(stack, idx, pd)
                /\ bet' = [bet EXCEPT ![idx] = @ + pd]
                /\ pot' = pot + pd
                /\ UNCHANGED <<folded, hbet, aq>>
       ELSE IF act = "raise"
       THEN LET pd == RaisePaid(call, amt, stack[idx])
                st == Pay(stack, idx, pd)
                bt == [bet EXCEPT ![idx] = @ + pd]
            IN  /\ stack' = st
                /\ bet' = bt
                /\ pot' = pot + pd
                /\ IF bt[idx] > hbet
                   THEN /\ hbet' = bt[idx]
                        /\ aq' = Reopen(aq, idx, folded, st, bt, bt[idx])
                   ELSE UNCHANGED <<hbet, aq>>
                /\ UNCHANGED folded
       ELSE UNCHANGED <<folded, stack, bet, pot, hbet, aq>>
    /\ last_action' = IF act \in {"fold", "check", "call", "raise"}
                      THEN [last_action EXCEPT ![idx] = act]
                      ELSE last_action
    /\ pc' = Applied(pc, turn).pc
    /\ turn' = Applied(pc, turn).turn
    /\ ev' = [e EXCEPT !.pre = [hbet |-> hbet, bet |-> bet, stack |-> stack]]
    /\ UNCHANGED <<cfg, hand, deck, comm, dealer, hnum>>

(***************************************************************************)
(* The bot's turn: the think thread, then the timer that applies           *)
(***************************************************************************)
\* the wins that the model lets estimate_strength count: every
\* StrengthStep-th value of 0..TRIALS
StrengthStep == 6
WinsDrawn == {w \in 0..TRIALS : w % StrengthStep = 0}

\* every (act, amt) that bot_decision can return on these arguments, over
\* the outcomes of its random draws
BotOutcomes(stk, pers, p, call_amt, min_raise, difficulty) ==
    {bot_decision(stk, pers, p, call_amt, min_raise, difficulty,
                  wins, bluff, rnd, pot_bet, tie) :
        wins \in WinsDrawn, bluff \in BOOLEAN, rnd \in BOOLEAN,
        pot_bet \in PotBets(p), tie \in BOOLEAN}

\* a faulty think that schedules next_action instead of apply: the decision is
\* computed and never applied
BotThinkDropped ==
    /\ pc = "think"
    /\ pc' = "next_action"
    /\ turn' = NoTurn
    /\ ev' = Event("think", turn.idx, "", 0)
    /\ UNCHANGED <<cfg, stack, bet, folded, hand, deck, comm, pot, hbet, dealer,
                   hnum, aq, last_action>>

\* think(): the thread computes the decision (it reads self.pot itself, the
\* rest from the snapshot) and schedules apply
BotThink ==
    /\ pc = "think"
    /\ \E r \in BotOutcomes(stack[turn.idx], persona(turn.idx), pot,
                            turn.call, turn.mr, cfg.diff) :
         /\ turn' = [turn EXCEPT !.act = r[1], !.amt = r[2]]
         /\ ev' = Event("think", turn.idx, r[1], r[2])
    /\ pc' = "bot_apply"
    /\ UNCHANGED <<cfg, stack, bet, folded, hand, deck, comm, pot, hbet, dealer,
                   hnum, aq, last_action>>

BotApply ==
    /\ pc = "bot_apply"
    /\ apply(turn.idx, turn.act, turn.amt, turn.call, turn.mr,
             Event("apply", turn.idx, turn.act, turn.amt))

(***************************************************************************)
(* HUMAN BUTTONS (human_turn): each button or key is one action            *)
(***************************************************************************)
\* a faulty CheckOrCall: the button always checks
CheckAlways(call) == "check"

\* act='check' if call==0 else 'call'
CheckOrCall(call) == IF call = 0 THEN "check" ELSE "call"

HumanFold ==
    /\ pc = "human_turn"
    /\ apply(turn.idx, "fold", 0, turn.call, turn.mr,
             Event("apply", turn.idx, "fold", 0))

HumanCheckCall ==
    /\ pc = "human_turn"
    /\ apply(turn.idx, CheckOrCall(turn.call), 0, turn.call, turn.mr,
             Event("apply", turn.idx, CheckOrCall(turn.call), 0))

HumanAllIn ==
    /\ pc = "human_turn"
    /\ apply(turn.idx, "raise", stack[turn.idx] - turn.call, turn.call, turn.mr,
             Event("apply", turn.idx, "raise", stack[turn.idx] - turn.call))

\* a faulty rmin that lets a raise of nothing through
RaiseMinZero(mr) == 0

\* rmin=max(mr,1)
RaiseMin(mr) == Max(mr, 1)

\* a faulty RaiseRefusal: the test amt>rmax is missing
RaiseRefusalNoMax(inp, rmin, rmax) ==
    IF ~inp.num THEN "Enter a valid number!"
    ELSE IF inp.val < rmin THEN "Minimum raise"
    ELSE ""

\* do_raise(): "" when the typed text is accepted, else the message logged
RaiseRefusal(inp, rmin, rmax) ==
    IF ~inp.num THEN "Enter a valid number!"
    ELSE IF inp.val < rmin THEN "Minimum raise"
    ELSE IF inp.val > rmax THEN "You only have"
    ELSE ""

HumanRaise ==
    /\ pc = "human_turn"
    /\ \E inp \in TypedInputs :
         LET rmin == RaiseMin(turn.mr)
             rmax == stack[turn.idx]
             why  == RaiseRefusal(inp, rmin, rmax)
         IN  IF why # ""
             THEN /\ ev' = [Event("do_raise", turn.idx, why, 0) EXCEPT !.inp = inp]
                  /\ UNCHANGED <<cfg, stack, bet, folded, hand, deck, comm, pot,
                                 hbet, dealer, hnum, aq, last_action, pc, turn>>
             ELSE apply(turn.idx, "raise", inp.val, turn.call, turn.mr,
                        [Event("do_raise", turn.idx, "raise", inp.val)
                            EXCEPT !.inp = inp])

(***************************************************************************)
(* Between hands                                                           *)
(***************************************************************************)
deal_btn ==
    /\ pc = "deal_btn"
    /\ IF HumanOut(stack) \/ Cardinality({i \in Players : stack[i] > 0}) = 1
       THEN game_over
       ELSE /\ pc' = "deal_wait"
            /\ turn' = NoTurn
            /\ ev' = Event("deal_btn", -1, "", 0)
            /\ UNCHANGED <<cfg, stack, bet, folded, hand, deck, comm, pot, hbet,
                           dealer, hnum, aq, last_action>>

\* the human clicks PLAY AGAIN
reset ==
    /\ pc = "game_over"
    /\ stack' = [i \in Players |-> cfg.stack]
    /\ hand' = [i \in Players |-> <<>>]
    /\ folded' = [i \in Players |-> FALSE]
    /\ bet' = [i \in Players |-> 0]
    /\ comm' = <<>>
    /\ pot' = 0
    /\ hnum' = 0
    /\ dealer' \in Players
    /\ last_action' = [i \in Players |-> ""]
    /\ pc' = "start_hand"
    /\ turn' = NoTurn
    /\ ev' = Event("reset", -1, "", 0)
    /\ UNCHANGED <<cfg, deck, hbet, aq>>

Next ==
    \/ StartHandTimer
    \/ DealClick
    \/ preflop
    \/ Flop
    \/ Turn
    \/ River
    \/ next_action
    \/ BotThink
    \/ BotApply
    \/ HumanFold
    \/ HumanCheckCall
    \/ HumanAllIn
    \/ HumanRaise
    \/ deal_btn
    \/ reset

Spec == Init /\ [][Next]_vars

(***************************************************************************)
(* The sessions in which the human never clicks DEAL NEXT HAND: the first  *)
(* hand after the setup dialog and after every PLAY AGAIN.                 *)
(***************************************************************************)
NextFirstHand ==
    \/ StartHandTimer
    \/ preflop
    \/ Flop
    \/ Turn
    \/ River
    \/ next_action
    \/ BotThink
    \/ BotApply
    \/ HumanFold
    \/ HumanCheckCall
    \/ HumanAllIn
    \/ HumanRaise
    \/ deal_btn
    \/ reset

\* diff_var=tk.StringVar(value="medium"): the radio buttons are left alone
DefaultDifficulty == {"medium"}

InitFirstHand == Constructed(Setups(MaxFirstStack, MaxFirstSB, DefaultDifficulty))

SpecFirstHand == InitFirstHand /\ [][NextFirstHand]_vars

(***************************************************************************)
(* bot_decision on its own: a think thread started on any arguments with   *)
(* stack > 0, min_raise > 0 and call_amt >= 0, for each bot and difficulty *)
(***************************************************************************)
InitBot ==
    /\ cfg \in {[stack |-> MaxBotStack, sb |-> 1, bb |-> 2, diff |-> d] :
                   d \in Difficulties}
    /\ stack \in {[i \in Players |-> s] : s \in 1..MaxBotStack}
    /\ bet = [i \in Players |-> 0]
    /\ folded = [i \in Players |-> FALSE]
    /\ hand = [i \in Players |-> <<>>]
    /\ deck = <<>>
    /\ comm = <<>>
    /\ pot \in 0..MaxBotPot
    /\ dealer = 0
    /\ hnum = 1
    /\ hbet = 0
    /\ aq = <<>>
    /\ last_action = [i \in Players |-> ""]
    /\ pc = "think"
    /\ turn \in {[idx |-> i, call |-> c, mr |-> m, act |-> "", amt |-> 0] :
                    i \in 1..3, c \in 0..MaxBotCall, m \in 1..MaxBotRaise}
    /\ ev = Event("next_action", turn.idx, "turn", 0)

NextBot == BotThink

SpecBot == InitBot /\ [][NextBot]_vars

(***************************************************************************)
(* PROPERTIES                                                              *)
(***************************************************************************)
\* the chips on the table: the four stacks and the pot
Chips == stack[0] + stack[1] + stack[2] + stack[3] + pot
\* the players who have not folded
Unfolded == {i \in Players : ~folded[i]}
\* the handlers that run between start_hand and end_hand's distribution
HandSteps ==
    {"preflop", "next_action", "advance", "think", "apply", "do_raise", "street"}
\* the values of pc while a hand is being played
HandPcs ==
    {"preflop", "next_action", "human_turn", "think", "bot_apply",
     "street_flop", "street_turn", "street_river"}
\* apply() has just executed a raise
RaiseApplied == ev.op \in {"apply", "do_raise"} /\ ev.act = "raise"
\* ... and the raiser's bet went above the bet to match it found
RaiseAbove == RaiseApplied /\ bet[ev.idx] > ev.pre.hbet

\* C1: chip conservation within a hand.  start_hand leaves the stacks alone
\* and starts the pot at 0, and every later step of the hand before end_hand
\* distributes the pot (the blinds, every fold/check/call/raise, every street
\* and the steps between them) leaves stacks + pot unchanged: so stacks + pot
\* is the sum of the stacks at hand start.
C1_ChipConservation ==
    [][/\ ev'.op = "start_hand" => (stack' = stack /\ pot' = 0)
       /\ ev'.op \in HandSteps => Chips' = Chips]_vars

\* a bot's raise on the river, after blinds, calls and three streets
C1_Witness ==
    /\ RaiseApplied /\ ev.idx # HUMAN /\ Len(comm) = 5
    /\ ev.pre.stack[ev.idx] > stack[ev.idx]
    /\ pot > cfg.sb + cfg.bb

\* C2: raise reopening.  Right after apply() executed a raise that took the
\* raiser's bet above hbet, hbet is the raiser's bet and every other player
\* who is not folded, has chips and has a bet below hbet is in the action
\* queue, whether or not that player had acted this street.
C2_RaiseReopens ==
    RaiseAbove =>
        /\ hbet = bet[ev.idx]
        /\ \A i \in Players \ {ev.idx} :
              (~folded[i] /\ stack[i] > 0 /\ bet[i] < hbet) => i \in Range(aq)

\* a raise that puts back in the queue a player who had checked or called
C2_Witness ==
    /\ RaiseAbove
    /\ \E i \in Players \ {ev.idx} :
          /\ last_action[i] \in {"check", "call"}
          /\ ~folded[i] /\ stack[i] > 0 /\ bet[i] < hbet
          /\ i \in Range(aq)

\* the scenario of C3: B = ev.idx has just raised above the bet to match,
\* when all four players were un-folded, had chips and had equal bets, and
\* A, the seat before B, had checked or called just before
RaiseOverEqualBets ==
    /\ RaiseAbove
    /\ \A i \in Players : ~folded[i] /\ ev.pre.stack[i] > 0
    /\ \A i, j \in Players : ev.pre.bet[i] = ev.pre.bet[j]
    /\ last_action[(ev.idx + 3) % 4] \in {"check", "call"}

\* C3 as stated: in that scenario A, who acted immediately before B, is not
\* put back in the action queue by B's raise; only C and D are queued.
C3_PredecessorNotRequeued ==
    RaiseOverEqualBets =>
        /\ (ev.idx + 3) % 4 \notin Range(aq)
        /\ (ev.idx + 1) % 4 \in Range(aq)
        /\ (ev.idx + 2) % 4 \in Range(aq)

\* C3 as amended: in that scenario all three other players, A as well as C
\* and D, are in the action queue after B's raise.
C3_AllOthersRequeued ==
    RaiseOverEqualBets => Range(aq) = Players \ {ev.idx}

\* B raises as the last to act, after A, C and D had all checked or called
C3_Witness ==
    /\ RaiseOverEqualBets
    /\ \A i \in Players \ {ev.idx} : last_action[i] \in {"check", "call"}
    /\ (ev.idx + 3) % 4 \in Range(aq)

\* C4: uncontested end.  Whenever exactly one player is un-folded while a
\* hand is being played, next_action is the pending step, and the next step
\* ends the hand as uncontested (no hand is ranked), deals no community
\* card, adds exactly the pot to that player's stack and leaves every other
\* stack unchanged.
C4_UncontestedEnd ==
    [][(pc \in HandPcs /\ Cardinality(Unfolded) = 1) =>
          LET w == CHOOSE i \in Players : ~folded[i]
          IN  /\ pc = "next_action"
              /\ ev'.op = "end_hand" /\ ev'.act = "uncontested"
              /\ ev'.who = {w}
              /\ comm' = comm
              /\ stack' = [i \in Players |->
                             IF i = w THEN stack[i] + pot ELSE stack[i]]]_vars

\* a hand that ended uncontested on the flop
C4_Witness ==
    /\ ev.op = "end_hand" /\ ev.act = "uncontested"
    /\ Len(comm) = 3 /\ pot > 0
    /\ Cardinality(Unfolded) = 1

\* the players of rank whose rank is at least every other's
MaxRanked(rank) ==
    {i \in DOMAIN rank :
        \A j \in DOMAIN rank : rank[i] = rank[j] \/ RankGT(rank[i], rank[j])}
StackSum(st) == st[0] + st[1] + st[2] + st[3]

\* C5: split pot at showdown.  The winners are exactly the un-folded players
\* whose hand rank is the maximum among the un-folded players; with k
\* winners each winner's stack grows by exactly pot div k, no other stack
\* changes, and the remainder pot mod k goes to nobody.
C5_SplitPot ==
    [][(ev'.op = "end_hand" /\ ev'.act = "showdown") =>
          \E W \in {MaxRanked([i \in Unfolded |-> hand_rank(hand[i] \o comm)])} :
             LET k == Cardinality(W)
             IN  /\ ev'.who = W
                 /\ k >= 1
                 /\ \A i \in Players :
                       stack'[i] = IF i \in W THEN stack[i] + (pot \div k)
                                   ELSE stack[i]
                 /\ StackSum(stack') = StackSum(stack) + pot - (pot % k)]_vars

\* a showdown that several players win and that leaves a remainder
C5_Witness ==
    /\ ev.op = "end_hand" /\ ev.act = "showdown"
    /\ Cardinality(ev.who) >= 2
    /\ pot % Cardinality(ev.who) # 0

\* C6: a showdown happens only with five community cards on the board.
\* Whenever end_hand has run with two or more un-folded players, the board
\* holds exactly five cards and the hands were ranked.
C6_ShowdownOnRiver ==
    (ev.op = "end_hand" /\ Cardinality(Unfolded) >= 2) =>
        (Len(comm) = 5 /\ ev.act = "showdown")

\* a showdown between three players that one of them wins
C6_Witness ==
    /\ ev.op = "end_hand" /\ ev.act = "showdown"
    /\ Cardinality(Unfolded) = 3 /\ Len(comm) = 5
    /\ Cardinality(ev.who) = 1

\* what C7 calls invalid: not a number, below rmin = max(min_raise, 1), or
\* above the stack
InvalidRaise(inp, min_raise, stk) ==
    \/ ~inp.num
    \/ inp.val < (IF min_raise > 1 THEN min_raise ELSE 1)
    \/ inp.val > stk

\* C7: an invalid raise input is rejected without mutation.  When the human
\* presses RAISE on an invalid amount, no stack, bet, folded flag or queue
\* entry changes, nor the pot or hbet, and it is still the human's turn.
C7_InvalidRaiseRejected ==
    [][(/\ pc = "human_turn"
        /\ ev'.op = "do_raise"
        /\ InvalidRaise(ev'.inp, turn.mr, stack[turn.idx])) =>
          /\ UNCHANGED <<stack, bet, pot, hbet, folded, aq>>
          /\ pc' = "human_turn"
          /\ turn' = turn
          /\ ev'.act # "raise"]_vars

\* a typed amount that reaches the minimum raise and exceeds the stack
C7_Witness ==
    /\ pc = "human_turn" /\ ev.op = "do_raise"
    /\ ev.inp.num /\ ev.inp.val >= turn.mr /\ ev.inp.val > stack[turn.idx]
    /\ pot > 0

\* C8: a check is applied only when the player owes nothing.  Whenever
\* apply() has executed a check, for the human or a bot, that player's bet
\* was at least hbet.
C8_CheckOwesNothing ==
    (ev.op = "apply" /\ ev.act = "check") =>
        ev.pre.bet[ev.idx] >= ev.pre.hbet

\* a bot checks its big blind: a check with a bet to match above 0
C8_Witness ==
    /\ ev.op = "apply" /\ ev.act = "check"
    /\ ev.idx # HUMAN
    /\ hbet > 0 /\ bet[ev.idx] = hbet

\* C9: bot amounts are bounded.  For every stack > 0, min_raise > 0 and
\* call_amt >= 0 and every outcome of the random draws, the amount that
\* bot_decision returns is at most the stack; a raise is returned only when
\* stack >= min_raise and with an amount of at least min_raise; a call is
\* returned with the amount min(call_amt, stack).
C9_BotAmountsBounded ==
    pc = "bot_apply" =>
        /\ turn.amt <= stack[turn.idx]
        /\ turn.act = "raise" =>
              (stack[turn.idx] >= turn.mr /\ turn.amt >= turn.mr)
        /\ turn.act = "call" =>
              turn.amt = (IF turn.call <= stack[turn.idx] THEN turn.call
                          ELSE stack[turn.idx])

\* a raise of more than the minimum raise and less than the stack
C9_Witness ==
    /\ pc = "bot_apply" /\ turn.act = "raise"
    /\ turn.amt > turn.mr /\ turn.amt < stack[turn.idx]

\* C10: bot actions are legal for the amount to call.  When call_amt = 0
\* bot_decision returns only check or raise; when call_amt > 0 it returns
\* only fold, call or raise, for every outcome of the random draws.
C10_BotActionLegal ==
    pc = "bot_apply" =>
        /\ turn.call = 0 => turn.act \in {"check", "raise"}
        /\ turn.call > 0 => turn.act \in {"fold", "call", "raise"}

\* a bot that calls less than it owes, being short of chips
C10_Witness ==
    /\ pc = "bot_apply" /\ turn.act = "call"
    /\ turn.call > stack[turn.idx] /\ turn.amt = stack[turn.idx]

\* the values of pc during a betting round: from after the blinds (or the
\* street) until next_action finds the queue empty
RoundPcs == {"next_action", "human_turn", "think", "bot_apply"}

\* C11: during a betting round hbet is the highest bet among the un-folded
\* players this street, also when a blind poster is short of chips: no
\* un-folded player's bet is above hbet, and some un-folded player's bet
\* equals it.
C11_HbetIsHighestBet ==
    (pc \in RoundPcs /\ Unfolded # {}) =>
        /\ \A i \in Unfolded : bet[i] <= hbet
        /\ \E i \in Unfolded : bet[i] = hbet

\* the players who hold chips
Solvent == {i \in Players : stack[i] > 0}
\* the first player holding chips that is met clockwise after the seat after
FirstSolventAfter(after) ==
    LET k == CHOOSE k \in 1..4 :
                 /\ stack[(after + k) % 4] > 0
                 /\ \A j \in 1..(k - 1) : stack[(after + j) % 4] = 0
    IN  (after + k) % 4

\* C12: when preflop runs with at least two players holding chips, the small
\* blind is the first such player clockwise after the dealer and the big
\* blind the next such player after the small blind, a different player;
\* each moves exactly min(blind, own stack) from the stack to the bet and the
\* pot, nobody else's stack or bet moves, and hbet becomes the big blind's
\* bet.
C12_BlindPosting ==
    [][(pc = "preflop" /\ Cardinality(Solvent) >= 2) =>
          LET sbi == FirstSolventAfter(dealer)
              bbi == FirstSolventAfter(sbi)
              pdS == Min(cfg.sb, stack[sbi])
              pdB == Min(cfg.bb, stack[bbi])
          IN  /\ sbi # bbi
              /\ stack' = [stack EXCEPT ![sbi] = @ - pdS, ![bbi] = @ - pdB]
              /\ bet' = [bet EXCEPT ![sbi] = @ + pdS, ![bbi] = @ + pdB]
              /\ pot' = pot + pdS + pdB
              /\ hbet' = bet'[bbi]]_vars
\* the blinds of a second hand were posted past a seat without chips, and
\* the big blind was short
C12_Witness ==
    /\ ev.op = "preflop"
    /\ hnum = 2
    /\ LET sk == (dealer + 1) % 4
       IN  folded[sk] /\ stack[sk] = 0 /\ bet[sk] = 0
    /\ \E i \in Players : last_action[i] = "blind" /\ bet[i] < cfg.sb

\* the four seats clockwise after the seat after, that seat itself last
Clockwise(after) == [k \in 1..4 |-> (after + k) % 4]
\* the players of the sequence seats that, after the step, are un-folded
\* and hold chips
LiveAfterStep(seats) ==
    SelectSeq(seats, LAMBDA i : stack'[i] > 0 /\ ~folded'[i])

\* C13: once preflop has posted the blinds, the action queue holds every
\* un-folded player with chips exactly once, in clockwise seat order
\* beginning with the first such player after the big blind (the big blind
\* is last when it still has chips).
C13_PreflopQueue ==
    [][(pc = "preflop" /\ Cardinality(Solvent) >= 2) =>
          LET bbi == FirstSolventAfter(FirstSolventAfter(dealer))
          IN  aq' = LiveAfterStep(Clockwise(bbi))]_vars
\* blinds were posted, a blind poster went all-in and is left out of a queue
\* of two or three players
C13_Witness ==
    /\ ev.op = "preflop"
    /\ pc = "next_action"
    /\ Len(aq) \in 2..3
    /\ \E i \in Players : ~folded[i] /\ stack[i] = 0 /\ bet[i] > 0

\* the values of pc while the timer of a street is pending
StreetPcs == {"street_flop", "street_turn", "street_river"}
\* the cards a street adds to n community cards: the flop 3, turn and river 1
CardsDue(n) == IF n = 0 THEN 3 ELSE 1

\* C14: when next_action finds the queue empty with more than one player
\* un-folded and fewer than five community cards, a street is next and
\* nothing else changes; that street then adds exactly 3 cards to none, or 1
\* card to 3 or 4, sets every bet and hbet to 0 while pot and stacks keep
\* their values, and makes the queue the un-folded players with chips, each
\* once, clockwise from the seat after the dealer.
C14_StreetTransition ==
    [][/\ (/\ pc = "next_action" /\ aq = <<>>
           /\ Cardinality(Unfolded) > 1 /\ Len(comm) < 5) =>
              /\ pc' \in StreetPcs
              /\ UNCHANGED <<stack, bet, folded, comm, deck, pot, hbet, aq>>
       /\ pc \in StreetPcs =>
              /\ Len(comm) \in {0, 3, 4}
              /\ Len(comm') = Len(comm) + CardsDue(Len(comm))
              /\ SubSeq(comm', 1, Len(comm)) = comm
              /\ bet' = [i \in Players |-> 0]
              /\ hbet' = 0
              /\ pot' = pot /\ stack' = stack /\ folded' = folded
              /\ aq' = LiveAfterStep(Clockwise(dealer))]_vars
\* a flop was dealt in a second hand with chips in the pot, and the new queue
\* leaves out an un-folded player who is all-in
C14_Witness ==
    /\ ev.op = "street"
    /\ hnum = 2
    /\ Len(comm) = 3
    /\ pot > 0
    /\ aq # <<>>
    /\ \E i \in Unfolded : stack[i] = 0

\* the values of pc from which start_hand or reset runs
RestartPcs == {"start_hand", "deal_wait", "game_over"}

\* C15: there are always 0, 3, 4 or 5 community cards; the board only
\* changes by a street that adds cards to the ones already there, from 0 to
\* 3, from 3 to 4 or from 4 to 5, or by start_hand or reset, which empty it.
C15_BoardGrows ==
    [][/\ Len(comm) \in {0, 3, 4, 5}
       /\ Len(comm') \in {0, 3, 4, 5}
       /\ comm' # comm =>
             \/ /\ pc \in StreetPcs
                /\ <<Len(comm), Len(comm')>> \in {<<0, 3>>, <<3, 4>>, <<4, 5>>}
                /\ SubSeq(comm', 1, Len(comm)) = comm
             \/ /\ pc \in RestartPcs
                /\ comm' = <<>>]_vars
\* the river of a second hand is on the board: the five cards of the first
\* hand were cleared by start_hand and three streets were dealt again
C15_Witness ==
    /\ hnum = 2
    /\ Len(comm) = 5
    /\ ev.op = "street"

\* the values of pc while a decision is requested from the player turn.idx
\* or is about to be applied for that player
TurnPcs == {"human_turn", "think", "bot_apply"}
\* apply() has just executed (do_raise reports in ev when it refuses an input
\* without calling apply)
Applying == ev.op = "apply" \/ (ev.op = "do_raise" /\ ev.act = "raise")

\* C16: whenever a decision is requested from a player or is about to be
\* applied for that player, the player is un-folded and holds chips, and
\* every apply() that has executed found chips in its player's stack.
C16_OnlyLivePlayersAct ==
    /\ pc \in TurnPcs => ~folded[turn.idx] /\ stack[turn.idx] > 0
    /\ Applying => ev.pre.stack[ev.idx] > 0
\* in a second hand a bot's decision is about to be applied while one player
\* is out of chips since the first hand and another is all-in
C16_Witness ==
    /\ pc = "bot_apply"
    /\ hnum = 2
    /\ \E j \in Players : folded[j] /\ stack[j] = 0
    /\ \E i \in Unfolded : stack[i] = 0 /\ bet[i] > 0

\* the cards of the hand in play, wherever they are: the hole cards seat by
\* seat, the board and the deck
CardsInPlay == hand[0] \o hand[1] \o hand[2] \o hand[3] \o comm \o deck
\* the most cards a hand takes off the deck: 4*2 hole cards and 5 on the board
MaxDealt == 4 * 2 + 5

\* C17: once a hand has been dealt, the hole cards, the community cards and
\* the cards left in the deck are pairwise distinct and together are exactly
\* the 52 cards; at most 13 cards have left the deck, which is therefore
\* never popped when empty.
C17_CardsUnique ==
    hnum >= 1 =>
        /\ Len(CardsInPlay) = 52
        /\ Range(CardsInPlay) = Range(make_deck)
        /\ Cardinality(Range(CardsInPlay)) = 52
        /\ 52 - Len(deck) <= MaxDealt
\* four players were dealt in and the river is on the board: 13 cards have
\* left the deck
C17_Witness ==
    /\ hnum >= 1
    /\ Len(comm) = 5
    /\ Len(deck) = 52 - MaxDealt
    /\ \A i \in Players : Len(hand[i]) = 2

\* too few players for a hand: the human has no chips, or fewer than two
\* players have any
Insufficient == stack[HUMAN] = 0 \/ Cardinality(Solvent) < 2

\* C18: no hand starts (no hole cards dealt, no hand counted, no preflop set)
\* when the human has no chips or fewer than two players have chips; from
\* the end of a hand, the start timer or the DEAL button the game-over
\* screen comes instead and chips and cards stay as they are; and whenever
\* preflop runs, it takes the blinds from exactly two players who held chips.
C18_NoHandWithoutPlayers ==
    [][/\ (\/ hnum' = hnum + 1 \/ pc' = "preflop"
           \/ (pc # "game_over" /\ hand' # hand)) => ~Insufficient
       /\ (pc \in {"deal_btn", "start_hand", "deal_wait"} /\ Insufficient) =>
              /\ pc' = "game_over"
              /\ UNCHANGED <<stack, bet, pot, hand, deck, comm, hnum>>
       /\ pc = "preflop" =>
              Cardinality({i \in Solvent : bet'[i] > bet[i]}) = 2]_vars
\* the first hand left the human without chips while two bots still have
\* some, and the game-over screen is up
C18_Witness ==
    /\ pc = "game_over"
    /\ hnum = 1
    /\ stack[HUMAN] = 0
    /\ Cardinality(Solvent) >= 2

\* what a betting decision reads and writes
Table == <<stack, bet, folded, pot, hbet, aq>>
\* the snapshot that apply() records is the state the step started from
AppliedHere == ev'.pre = [hbet |-> hbet, bet |-> bet, stack |-> stack]

Awarded == ev.op = "end_hand" /\ ev.act \in {"uncontested", "showdown"}

\* C20: in the state right after end_hand has awarded the pot, before the
\* next hand is started, the pot is 0.
C20_PotClearedAtAward == Awarded => pot = 0

\* the first player that holds chips after the step, met clockwise after the
\* seat after
FirstSolventAfterStep(after) ==
    LET k == CHOOSE k \in 1..4 :
                 /\ stack'[(after + k) % 4] > 0
                 /\ \A j \in 1..(k - 1) : stack'[(after + j) % 4] = 0
    IN  (after + k) % 4

\* C21: when end_hand has distributed the pot, the dealer is the first player
\* clockwise after the old dealer whose stack is then above 0; the dealer is
\* always one of the seats 0..3, and when a hand starts the dealer is a
\* player with chips.
C21_DealerRotation ==
    [][/\ dealer \in 0..3 /\ dealer' \in 0..3
       /\ (pc' = "deal_btn" /\ pc # "deal_btn") =>
              dealer' = FirstSolventAfterStep(dealer)
       /\ hnum' = hnum + 1 => stack'[dealer'] > 0
       /\ pc = "preflop" => stack[dealer] > 0]_vars
\* a second hand has started after a rotation over stacks that the first hand
\* made unequal: the two seats before the new dealer have no chips left
C21_Witness ==
    /\ hnum = 2
    /\ pc = "preflop"
    /\ stack[(dealer + 3) % 4] = 0
    /\ stack[(dealer + 2) % 4] = 0

\* C22: every stack, every bet and the pot are non-negative integers in every
\* state, and while a hand is played (from the blinds to the distribution)
\* no step makes the pot smaller.
C22_NonNegativeChips ==
    [][/\ \A i \in Players : stack[i] \in Nat /\ bet[i] \in Nat
       /\ \A i \in Players : stack'[i] \in Nat /\ bet'[i] \in Nat
       /\ pot \in Nat /\ pot' \in Nat
       /\ pc \in HandPcs => pot' >= pot]_vars
\* a player has called for less than was owed, with the last chips of the
\* stack, and the pot took them
C22_Witness ==
    /\ ev.op = "apply"
    /\ ev.act = "call"
    /\ stack[ev.idx] = 0
    /\ ev.pre.stack[ev.idx] > 0
    /\ bet[ev.idx] < hbet
    /\ pot > 0

(***************************************************************************)
(* score_five on its own: two five-card hands are scored, hand[0] any five *)
(* cards of ScorePool and hand[1] one of the two wheels of Wheels           *)
(***************************************************************************)
\* the cards the scored hands are made of: a suit with the ranks of the
\* wheel, of the 6-high straight and of the ace-high straight, and the aces,
\* deuces and one six of the other suits
ScorePool ==
    {<<r, "S">> : r \in {"A", "2", "3", "4", "5", "6", "10", "J", "Q", "K"}}
        \cup {<<r, "H">> : r \in {"A", "2", "6"}}
        \cup {<<r, u>> : r \in {"A", "2"}, u \in {"D", "C"}}
\* the hands of five cards of ScorePool
FiveCardHands == {h \in SUBSET ScorePool : Cardinality(h) = 5}
\* the cards of the set h as a list
RECURSIVE ListOf(_)
ListOf(h) ==
    IF h = {} THEN <<>>
    ELSE LET c == CHOOSE c \in h : TRUE IN <<c>> \o ListOf(h \ {c})
\* A-2-3-4-5 in one suit, and with the ace of another suit
Wheels ==
    {<<<<"A", "S">>, <<"2", "S">>, <<"3", "S">>, <<"4", "S">>, <<"5", "S">>>>,
     <<<<"A", "H">>, <<"2", "S">>, <<"3", "S">>, <<"4", "S">>, <<"5", "S">>>>}

InitScore ==
    /\ cfg = [stack |-> 1, sb |-> 1, bb |-> 2, diff |-> "medium"]
    /\ stack = [i \in Players |-> 1]
    /\ bet = [i \in Players |-> 0]
    /\ folded = [i \in Players |-> FALSE]
    /\ \E h \in FiveCardHands, w \in Wheels :
           hand = [i \in Players |->
                     IF i = 0 THEN ListOf(h) ELSE IF i = 1 THEN w ELSE <<>>]
    /\ deck = <<>>
    /\ comm = <<>>
    /\ pot = 0
    /\ dealer = 0
    /\ hnum = 1
    /\ hbet = 0
    /\ aq = <<>>
    /\ last_action = [i \in Players |-> ""]
    /\ pc = "score_five"
    /\ turn = NoTurn
    /\ ev = Event("init", -1, "", 0)

\* s=score_five(five) for the two hands; ev keeps the two scores
ScoreFive ==
    /\ pc = "score_five"
    /\ pc' = "scored"
    /\ ev' = [op |-> "score_five", a |-> score_five(hand[0]),
              b |-> score_five(hand[1])]
    /\ UNCHANGED <<cfg, stack, bet, folded, hand, deck, comm, pot, hbet, dealer,
                   hnum, aq, last_action, turn>>

NextScore == ScoreFive

SpecScore == InitScore /\ [][NextScore]_vars

\* the rank values of five cards, and how often the value v occurs
ValuesOf(cards) == {RANK_VAL[cards[i][1]] : i \in 1..5}
TimesIn(cards, v) == Cardinality({i \in 1..5 : RANK_VAL[cards[i][1]] = v})
\* the values that occur exactly n times
ValuesTimes(cards, n) == {v \in ValuesOf(cards) : TimesIn(cards, v) = n}
IsFlush(cards) == \A i \in 1..5 : cards[i][2] = cards[1][2]
IsWheel(cards) == ValuesOf(cards) = {14, 2, 3, 4, 5}
IsStraight(cards) ==
    IsWheel(cards) \/ \E hi \in 6..14 : ValuesOf(cards) = (hi - 4)..hi
\* the category of five cards by the rules of poker, 8 (straight flush) down
\* to 0 (high card)
Category(cards) ==
    IF IsStraight(cards) /\ IsFlush(cards) THEN 8
    ELSE IF ValuesTimes(cards, 4) # {} THEN 7
    ELSE IF ValuesTimes(cards, 3) # {} /\ ValuesTimes(cards, 2) # {} THEN 6
    ELSE IF IsFlush(cards) THEN 5
    ELSE IF IsStraight(cards) THEN 4
    ELSE IF ValuesTimes(cards, 3) # {} THEN 3
    ELSE IF Cardinality(ValuesTimes(cards, 2)) = 2 THEN 2
    ELSE IF ValuesTimes(cards, 2) # {} THEN 1
    ELSE 0

\* C23: score_five gives every five-card hand the category of the precedence
\* straight flush > quads > full house > flush > straight > trips > two pair
\* > pair > high card, and a hand of a higher category the greater score;
\* A-2-3-4-5 is a straight with tie-break 5,4,3,2,1, so a wheel scores below
\* every other straight of its category (the wheel straight flush below the
\* 6-high one), above every hand of a lower category, and the same as
\* another wheel of its category.
C23_ScoreFiveOrder ==
    ev.op = "score_five" =>
        /\ ev.a[1] = Category(hand[0])
        /\ ev.b[1] = Category(hand[1])
        /\ IsWheel(hand[0]) => ev.a[2] = <<5, 4, 3, 2, 1>>
        /\ ev.b[2] = <<5, 4, 3, 2, 1>>
        /\ Category(hand[0]) > Category(hand[1]) => RankGT(ev.a, ev.b)
        /\ Category(hand[0]) < Category(hand[1]) => RankGT(ev.b, ev.a)
        /\ Category(hand[0]) = Category(hand[1]) =>
               IF IsWheel(hand[0])
               THEN ~RankGT(ev.a, ev.b) /\ ~RankGT(ev.b, ev.a)
               ELSE RankGT(ev.a, ev.b)
\* the 6-high straight flush has been scored against the wheel straight flush
C23_Witness ==
    /\ ev.op = "score_five"
    /\ ValuesOf(hand[0]) = 2..6
    /\ IsFlush(hand[0])
    /\ IsFlush(hand[1])
    /\ RankGT(ev.a, ev.b)

(***************************************************************************)
(* estimate_strength on its own: the hole cards of one seat and a board of *)
(* 0, 3, 4 or 5 cards are taken from a dealt hand, and its loop runs       *)
(***************************************************************************)
\* the trials of the loop "for _ in range(trials)" that are followed
MaxTrials == 2
\* random.shuffle(deck) of a trial moves the card at place i to place
\* a*i+b: the largest b that is drawn
MaxShift == 4
\* the multipliers a that are drawn; each is prime to 45, 46, 47 and 50, the
\* sizes the list can have
ShuffleSteps == {1, 7}
\* the list d after such a shuffle
Reshuffled(d, a, b) ==
    LET n == Len(d)
        place(i) == ((a * (i - 1) + b) % n) + 1
    IN  [j \in 1..n |-> d[CHOOSE i \in 1..n : place(i) = j]]

\* a faulty slice that takes the opponent's cards from the top of the list
OppFromTop(d, needed) == SubSeq(d, 1, 2)

\* deck[:needed] and deck[needed:needed+2]
BoardSlice(d, needed) == SubSeq(d, 1, needed)
OppSlice(d, needed) == SubSeq(d, needed + 1, needed + 2)

\* [c for c in make_deck() if c not in hole and c not in comm]
Unseen(hole, cm) ==
    SelectSeq(make_deck, LAMBDA c : c \notin Range(hole) /\ c \notin Range(cm))

\* estimate_strength(hole,comm) has been called for the seat turn.idx and
\* has built its list (kept in deck); ev counts the trials and the wins
InitEstimate ==
    /\ cfg = [stack |-> 1, sb |-> 1, bb |-> 2, diff |-> "medium"]
    /\ stack = [i \in Players |-> 1]
    /\ bet = [i \in Players |-> 0]
    /\ folded = [i \in Players |-> FALSE]
    /\ \E k \in ShuffleKeys, n \in {0, 3, 4, 5}, idx \in Players :
         \E dealt \in {Dealt(Shuffled(k), Players)} :
           /\ hand = dealt.hand
           /\ comm = Pops(dealt.deck, n)
           /\ deck = Unseen(dealt.hand[idx], Pops(dealt.deck, n))
           /\ turn = [NoTurn EXCEPT !.idx = idx]
    /\ pot = 0
    /\ dealer = 0
    /\ hnum = 1
    /\ hbet = 0
    /\ aq = <<>>
    /\ last_action = [i \in Players |-> ""]
    /\ pc = "estimate_strength"
    /\ ev = [op |-> "estimate_strength", n |-> 0, wins |-> 0,
             board |-> <<>>, opp |-> <<>>]

\* one pass of the loop of estimate_strength
Trial ==
    /\ pc = "estimate_strength"
    /\ ev.n < MaxTrials
    /\ \E a \in ShuffleSteps, b \in 0..MaxShift :
         \E d \in {Reshuffled(deck, a, b)} :
           LET needed == 5 - Len(comm)
               hole   == hand[turn.idx]
               board  == comm \o BoardSlice(d, needed)
               opp    == OppSlice(d, needed)
               win    == ~RankGT(hand_rank(opp \o board),
                                 hand_rank(hole \o board))
           IN  /\ deck' = d
               /\ ev' = [op |-> "trial", n |-> ev.n + 1,
                         wins |-> ev.wins + (IF win THEN 1 ELSE 0),
                         board |-> board, opp |-> opp]
    /\ UNCHANGED <<cfg, stack, bet, folded, hand, comm, pot, hbet, dealer,
                   hnum, aq, last_action, pc, turn>>

NextEstimate == Trial

SpecEstimate == InitEstimate /\ [][NextEstimate]_vars

\* C24: in every trial of estimate_strength, for a board of 0, 3, 4 or 5
\* cards, the completed board has exactly 5 cards and begins with the cards
\* on the table, the simulated opponent has exactly 2 cards, and the two
\* hole cards, the five board cards and the opponent's two cards are nine
\* different cards.
C24_TrialCardsDistinct ==
    ev.op = "trial" =>
        /\ Len(ev.board) = 5
        /\ SubSeq(ev.board, 1, Len(comm)) = comm
        /\ Len(ev.opp) = 2
        /\ Len(hand[turn.idx]) = 2
        /\ Cardinality(Range(hand[turn.idx] \o ev.board \o ev.opp)) = 9
\* a second trial has run before the flop: five board cards and two
\* opponent cards were drawn from a list that was shuffled twice
C24_Witness ==
    /\ ev.op = "trial"
    /\ ev.n = 2
    /\ comm = <<>>
    /\ Len(deck) = 50
    /\ Len(ev.board) = 5

\* a callback has raised and left nothing scheduled: no timer, no thread and
\* no button will ever continue the hand
Stuck == pc = "error"

\* C25: every hand that starts goes on to its end; in its finite form, no
\* state reached after start_hand is stuck before the pot has been awarded.
C25_HandNeverStuck == ~Stuck

\* next_action is about to call advance(): the queue is empty and more than
\* one player is un-folded
RoundCloses == pc = "next_action" /\ aq = <<>> /\ Cardinality(Unfolded) > 1

\* C26: whenever a betting round closes, every un-folded player who still
\* holds chips has a bet equal to hbet; only players who are all-in may have
\* a bet below it.
C26_RoundClosesMatched ==
    RoundCloses => \A i \in Unfolded : stack[i] > 0 => bet[i] = hbet

\* C27: after apply() has executed a raise (of a bot, typed by the human, or
\* the human's ALL IN), either the raiser's bet is above the hbet that the
\* raise found, and hbet is now that bet, or the raiser has no chips left.
C27_RaiseIncreasesOrAllIn ==
    RaiseApplied =>
        \/ bet[ev.idx] > ev.pre.hbet /\ hbet = bet[ev.idx]
        \/ stack[ev.idx] = 0
\* a bot has raised over a bet to match above 0 and kept chips
C27_Witness ==
    /\ RaiseApplied
    /\ ev.idx # HUMAN
    /\ ev.pre.hbet > 0
    /\ bet[ev.idx] > ev.pre.hbet
    /\ stack[ev.idx] > 0

\* how many seats clockwise seat i sits from seat `from`
SeatsPast(from, i) == (i + 4 - from) % 4

\* C28: once a raise has reopened the action, the action queue holds the
\* players who owe a response in clockwise seat order starting from the seat
\* after the raiser.
C28_ReopenedClockwise ==
    RaiseAbove =>
        \A j, k \in DOMAIN aq :
            j < k => SeatsPast(ev.idx, aq[j]) < SeatsPast(ev.idx, aq[k])

\* the step is an apply() of a fold
FoldStep == pc \in {"human_turn", "bot_apply"} /\ ev'.op = "apply" /\ ev'.act = "fold"

\* C29: fold frame and finality.  Applying a fold sets the folded flag of the
\* folding player and nothing else of the table: every stack, every bet (the
\* folder's own too), the pot, hbet, the queue, the cards, the dealer and the
\* hand number are unchanged.  From then on, through end_hand's distribution
\* and until start_hand or reset prepares another hand, a folded player stays
\* folded and that player's stack does not change.
C29_FoldFrame ==
    [][/\ FoldStep =>
            /\ ~folded[ev'.idx]
            /\ folded' = [folded EXCEPT ![ev'.idx] = TRUE]
            /\ UNCHANGED <<stack, bet, pot, hbet, aq, hand, deck, comm, dealer,
                           hnum, cfg>>
       /\ \A i \in Players :
            folded[i] /\ pc \notin RestartPcs =>
                folded'[i] /\ stack'[i] = stack[i]]_vars
\* a showdown has paid the pot while a player who folded with chips behind
\* has the best hand of the four
C29_Witness ==
    /\ Awarded
    /\ ev.act = "showdown"
    /\ pot > 0
    /\ \E i \in Players :
         /\ folded[i]
         /\ stack[i] > 0
         /\ i \in WinnersWithFolded(folded, hand, comm)

====
